---- MODULE Spec2Model ----
(***************************************************************************)
(* Model of the netmeta bridge (src/src/netmeta_mcp/r_bridge.py) and of    *)
(* the tool surface (src/src/netmeta_mcp/server.py).                       *)
(*                                                                         *)
(* The R engine is an external process.  What a script prints is a         *)
(* sequence of lexemes: whitespace, a complete JSON text (carrying the     *)
(* document it encodes) or any other text.  The state file is the empty    *)
(* sequence when the file does not exist and a one-element sequence        *)
(* holding the fitted netmeta object otherwise, or, while and after        *)
(* concurrent saves, the pieces written so far.                            *)
(*                                                                         *)
(* Spec: the tools called one at a time.  SpecFacade: _run_r_script on any *)
(* process result.  SpecRoundTrip: runnetmeta + get_league_table twice.    *)
(* SpecConcurrent: two runnetmeta calls in two R processes and a read      *)
(* beside them.  SpecFailingRuns: runnetmeta calls that fail.              *)
(* SpecConcurrentRead: one read beside one runnetmeta call.                *)
(***************************************************************************)
EXTENDS Integers, Sequences, FiniteSets, TLC

VARIABLES env,            \* the host: which R executables exist, how R answers
          bridge,         \* r_bridge of server.py: not built, ready or failed
          stateFile,      \* <tempdir>/netmeta_state.rds
          lastOp,         \* the tool operation that returned last
          lastArgs,       \* its arguments
          proc,           \* the CompletedProcess of its engine run
          lastResult,     \* what it returned, or that it raised
          bodyRan,        \* whether the operation body of its script was executed
          fileBefore,     \* history: the state file when lastOp was issued
          fileAtLastRun,  \* history: the state file when the last runnetmeta returned
          rt,             \* a caller repeating one runnetmeta + get_league_table
          conc            \* runnetmeta calls in progress, each in its own R process

vars == <<env, bridge, stateFile, lastOp, lastArgs, proc, lastResult, bodyRan,
          fileBefore, fileAtLastRun, rt, conc>>

(***************************************************************************)
(* Bounds of the model.                                                    *)
(***************************************************************************)
MaxStdoutLen == 3      \* lexemes of a captured stdout, for the facade on its own
MaxScore == 1          \* P-scores are k / MaxScore, k in 0..MaxScore
SaveChunks == 2        \* pieces in which saveRDS writes the state file

(***************************************************************************)
(* Captured text.                                                          *)
(***************************************************************************)
WS == [t |-> "ws"]
Text(s) == [t |-> "text", v |-> s]
JSON(d) == [t |-> "json", v |-> d]

IsSpace(c) == c.t = "ws"

RECURSIVE lstrip(_)
lstrip(s) == IF s # <<>> /\ IsSpace(Head(s)) THEN lstrip(Tail(s)) ELSE s

RECURSIVE rstrip(_)
rstrip(s) ==
    IF s # <<>> /\ IsSpace(s[Len(s)]) THEN rstrip(SubSeq(s, 1, Len(s) - 1)) ELSE s

\* A plausible slip: the captured text is used as it is.
strip_nothing(s) == s

\* str.strip()
strip(s) == rstrip(lstrip(s))

\* json.loads: skip whitespace, decode one value, skip whitespace, and
\* require the end of the text.
json_loads(s) ==
    LET a == lstrip(s) IN
    IF a = <<>> \/ Head(a).t # "json"
    THEN [ok |-> FALSE, msg |-> "Expecting value"]
    ELSE IF lstrip(Tail(a)) # <<>>
         THEN [ok |-> FALSE, msg |-> "Extra data"]
         ELSE [ok |-> TRUE, doc |-> Head(a).v]

\* A plausible slip: stdout is looked at before the exit code.
run_r_script_stdout_first(result) ==
    LET output == strip(result.stdout) IN
    IF output = <<>> THEN [error |-> "No output from R"]
    ELSE IF result.returncode # 0 THEN [error |-> "R error: " \o result.stderr]
    ELSE IF json_loads(output).ok THEN json_loads(output).doc
    ELSE [error |-> "Failed to parse R output: " \o json_loads(output).msg,
          raw_output |-> result.stdout]

\* A plausible slip: the stripped text is attached instead of the captured one.
run_r_script_raw_stripped(result) ==
    LET output == strip(result.stdout) IN
    IF result.returncode # 0 THEN [error |-> "R error: " \o result.stderr]
    ELSE IF output = <<>> THEN [error |-> "No output from R"]
    ELSE IF json_loads(output).ok THEN json_loads(output).doc
    ELSE [error |-> "Failed to parse R output: " \o json_loads(output).msg,
          raw_output |-> output]

\* NetmetaBridge._run_r_script, from the CompletedProcess on.
run_r_script(result) ==
    LET output == strip(result.stdout) IN
    IF result.returncode # 0 THEN [error |-> "R error: " \o result.stderr]
    ELSE IF output = <<>> THEN [error |-> "No output from R"]
    ELSE IF json_loads(output).ok THEN json_loads(output).doc
    ELSE [error |-> "Failed to parse R output: " \o json_loads(output).msg,
          raw_output |-> result.stdout]

\* What an R script did: the text it printed, the condition it signalled
\* (the empty string when none), whether it called quit, the state file it
\* left and whether its operation body was executed.
Ran(out, cond, quit, file, body) ==
    [out |-> out, cond |-> cond, quit |-> quit, file |-> file, body |-> body]

\* What R says of a tryCatch expression it cannot parse.
SyntaxError == "Error: unexpected ';' in the script"

\* The wrapper of _run_r_script: the script runs inside tryCatch, whose
\* handler prints the condition message as a JSON error object; R then
\* exits with status 0.  A script that does not parse is never run: R
\* reports the syntax error on stderr and exits with status 1.
full_script(s) ==
    IF s.cond = SyntaxError
    THEN [returncode |-> 1, stdout |-> <<>>, stderr |-> SyntaxError]
    ELSE [returncode |-> 0,
          stdout |-> IF s.cond # "" /\ ~s.quit
                     THEN s.out \o <<JSON([error |-> s.cond])>>
                     ELSE s.out,
          stderr |-> ""]

\* A caller's string is put between double quotes in the script text as it
\* is (f'"{reference}"').  R reads the text up to the first double quote
\* as the string, and anything between that quote and the last literal as
\* statements of the script.
Crafted == "A\"; unlink(\"/tmp/netmeta_state.rds\"); ref <- \"A"

Spliced(text) ==
    IF text = Crafted
    THEN [value |-> "A", statements |-> <<"unlink">>]
    ELSE [value |-> text, statements |-> <<>>]

NoResultMsg == "No netmeta result available. Run runnetmeta first."

(***************************************************************************)
(* The bytes of the state file.  saveRDS(result, path) opens the path for  *)
(* writing, which empties it, and writes the serialized object in          *)
(* SaveChunks pieces, each at the writing process's own offset.  A file    *)
(* holding all pieces of one object is written <<object>>; any other       *)
(* content is <<[torn |-> pieces]>>.                                       *)
(***************************************************************************)
Chunk(object, part) == [of |-> object, part |-> part]

Hole == [of |-> <<>>, part |-> 0]       \* bytes that no process has written

Intact(file) == file # <<>> /\ "torn" \notin DOMAIN file[1]

Chunks(file) ==
    IF file = <<>> THEN <<>>
    ELSE IF Intact(file) THEN [k \in 1..SaveChunks |-> Chunk(file[1], k)]
    ELSE file[1].torn

FileOf(chunks) ==
    IF /\ Len(chunks) = SaveChunks
       /\ \A k \in 1..SaveChunks : chunks[k].part = k
       /\ \A k \in 1..SaveChunks : chunks[k].of = chunks[1].of
    THEN <<chunks[1].of>>
    ELSE <<[torn |-> chunks]>>

\* saveRDS(result, path), one step of it: step 0 opens the file, step k
\* writes piece k.
saveRDS(file, object, step) ==
    IF step = 0 THEN FileOf(<<>>)
    ELSE LET chunks == Chunks(file)
             len == IF Len(chunks) > step THEN Len(chunks) ELSE step
         IN FileOf([k \in 1..len |->
                      IF k = step THEN Chunk(object, k)
                      ELSE IF k <= Len(chunks) THEN chunks[k] ELSE Hole])

\* A plausible slip: the guard prints the message and goes on to readRDS.
load_state_script_no_quit(file) ==
    IF file = <<>>
    THEN [out |-> <<JSON([error |-> NoResultMsg])>>, quit |-> FALSE,
          cond |-> "cannot open the connection"]
    ELSE [out |-> <<>>, quit |-> FALSE, cond |-> "", result |-> file[1]]

\* NetmetaBridge._load_state_script on what readRDS made of the file: one
\* whole object, or, for content that is not one, the error readRDS stopped
\* with (readRDS below gives the outcomes it may have).
load_state_script(file) ==
    IF file = <<>>
    THEN [out |-> <<JSON([error |-> NoResultMsg])>>, quit |-> TRUE, cond |-> ""]
    ELSE IF ~Intact(file)
    THEN [out |-> <<>>, quit |-> FALSE, cond |-> "error reading from connection"]
    ELSE [out |-> <<>>, quit |-> FALSE, cond |-> "", result |-> file[1]]

\* A script that starts with the load-state preamble and then prints doc.
AfterLoad(file, pre, doc) ==
    IF pre.quit \/ pre.cond # ""
    THEN Ran(pre.out, pre.cond, pre.quit, file, FALSE)
    ELSE Ran(pre.out \o <<JSON(doc)>>, "", FALSE, file, TRUE)

(***************************************************************************)
(* The engine: netmeta() of the R package netmeta, as far as the scripts   *)
(* depend on it.  Matrix entries and variance estimates are symbolic.      *)
(***************************************************************************)
TreatmentOrder == <<"A", "B", "C", "D">>     \* the collating order of the labels

Range(s) == {s[i] : i \in 1..Len(s)}

Index(s, x) == CHOOSE i \in 1..Len(s) : s[i] = x

Labels(data) == {data[i].treat1 : i \in 1..Len(data)} \cup
                {data[i].treat2 : i \in 1..Len(data)}

RECURSIVE Reach(_, _)
Reach(data, S) ==
    LET T == S \cup {data[i].treat2 : i \in {r \in 1..Len(data) : data[r].treat1 \in S}}
              \cup {data[i].treat1 : i \in {r \in 1..Len(data) : data[r].treat2 \in S}}
    IN IF T = S THEN S ELSE Reach(data, T)

Connected(data) == Reach(data, {data[1].treat1}) = Labels(data)

\* The message of the error netmeta() stops with, or "" when it fits.
netmeta_error(data, reference_group) ==
    IF Len(data) = 0 THEN "argument TE is missing"
    ELSE IF \E i \in 1..Len(data) : data[i].treat1 = data[i].treat2
         THEN "Treatments must be different"
    ELSE IF ~Connected(data) THEN "Network consists of separate sub-networks"
    ELSE IF reference_group # "" /\ reference_group \notin Labels(data)
         THEN "Argument 'reference.group' must match a treatment"
    ELSE ""

\* A plausible slip: the comparisons are kept in the orientation they came in.
Swapped_never(row) == FALSE

\* netmeta() orders the two treatments of every comparison.
Swapped(row) == Index(TreatmentOrder, row.treat1) > Index(TreatmentOrder, row.treat2)

\* The fitted object: the treatments in the engine's (sorted) order, the
\* comparisons it was fitted to, and the settings of the call.
netmeta(data, sm, reference_group, common, random) ==
    [trts |-> SelectSeq(TreatmentOrder, LAMBDA t : t \in Labels(data)),
     treat1 |-> [i \in 1..Len(data) |->
                   IF Swapped(data[i]) THEN data[i].treat2 ELSE data[i].treat1],
     treat2 |-> [i \in 1..Len(data) |->
                   IF Swapped(data[i]) THEN data[i].treat1 ELSE data[i].treat2],
     studlab |-> [i \in 1..Len(data) |-> data[i].study],
     TE |-> [i \in 1..Len(data) |->
                   IF Swapped(data[i]) THEN 0 - data[i].TE ELSE data[i].TE],
     seTE |-> [i \in 1..Len(data) |-> data[i].seTE],
     k |-> Cardinality({data[i].study : i \in 1..Len(data)}),
     sm |-> sm,
     reference_group |-> reference_group,
     common |-> common,
     random |-> random]

\* Entry [i, j] of matrix m of a fitted object: a number the engine
\* computes from the comparisons it was fitted to.
Cell(result, m, i, j) ==
    [matrix |-> m, i |-> i, j |-> j,
     of |-> <<result.treat1, result.treat2, result.TE, result.seTE>>]

RECURSIVE PairsFrom(_, _, _)
PairsFrom(i, j, n) == IF j > n THEN <<>> ELSE << <<i, j>> >> \o PairsFrom(i, j + 1, n)

\* A plausible slip: the pairs are taken column by column.
PairLoop_by_column(i, n) ==
    LET all == {pr \in (i..n) \X (i..n) : pr[1] < pr[2]}
        before(pr) == {qr \in all : qr[2] < pr[2] \/ (qr[2] = pr[2] /\ qr[1] < pr[1])}
    IN [p \in 1..Cardinality(all) |->
           CHOOSE pr \in all : Cardinality(before(pr)) = p - 1]

\* for (i in 1:(n-1)) for (j in (i+1):n), n >= 2
RECURSIVE PairLoop(_, _)
PairLoop(i, n) == IF i > n - 1 THEN <<>> ELSE PairsFrom(i, i + 1, n) \o PairLoop(i + 1, n)

Estimates(result, model) ==
    LET pairs == PairLoop(1, Len(result.trts)) IN
    [p \in 1..Len(pairs) |->
        [treat1 |-> result.trts[pairs[p][1]],
         treat2 |-> result.trts[pairs[p][2]],
         effect |-> Cell(result, "TE." \o model, pairs[p][1], pairs[p][2]),
         ci_lower |-> Cell(result, "lower." \o model, pairs[p][1], pairs[p][2]),
         ci_upper |-> Cell(result, "upper." \o model, pairs[p][1], pairs[p][2])]]

Heterogeneity == [tau2 |-> "tau^2", tau |-> "tau", I2 |-> "I2"]

\* A plausible slip: every block is put out whatever models were asked for.
run_output_every_block(result, nrow) ==
    [treatments |-> result.trts, n_studies |-> result.k,
     n_comparisons |-> nrow, sm |-> result.sm,
     reference |-> result.reference_group,
     heterogeneity |-> Heterogeneity,
     fixed_effects |-> Estimates(result, "common"),
     random_effects |-> Estimates(result, "random")]

\* The output list of the run script (r_bridge.py lines 153-209).
run_output(result, nrow) ==
    LET base == [treatments |-> result.trts, n_studies |-> result.k,
                 n_comparisons |-> nrow, sm |-> result.sm,
                 reference |-> result.reference_group]
    IN CASE result.common /\ result.random ->
              [treatments |-> base.treatments, n_studies |-> base.n_studies,
               n_comparisons |-> base.n_comparisons, sm |-> base.sm,
               reference |-> base.reference,
               heterogeneity |-> Heterogeneity,
               fixed_effects |-> Estimates(result, "common"),
               random_effects |-> Estimates(result, "random")]
         [] result.common /\ ~result.random ->
              [treatments |-> base.treatments, n_studies |-> base.n_studies,
               n_comparisons |-> base.n_comparisons, sm |-> base.sm,
               reference |-> base.reference,
               fixed_effects |-> Estimates(result, "common")]
         [] ~result.common /\ result.random ->
              [treatments |-> base.treatments, n_studies |-> base.n_studies,
               n_comparisons |-> base.n_comparisons, sm |-> base.sm,
               reference |-> base.reference,
               heterogeneity |-> Heterogeneity,
               random_effects |-> Estimates(result, "random")]
         [] OTHER -> base

\* A plausible slip: the script never saves the fitted object.
run_netmeta_script_no_save(file, data, sm, reference, comb_fixed, comb_random) ==
    IF netmeta_error(data, reference) # ""
    THEN Ran(<<>>, netmeta_error(data, reference), FALSE, file, TRUE)
    ELSE Ran(<<JSON(run_output(netmeta(data, sm, reference, comb_fixed, comb_random),
                               Len(data)))>>,
             "", FALSE, file, TRUE)

\* A plausible slip: the comparisons of the saved fit are kept and the new
\* ones added to them.
run_netmeta_script_accumulate(file, data, sm, reference, comb_fixed, comb_random) ==
    LET earlier == IF file = <<>> THEN <<>>
                   ELSE [i \in 1..Len(file[1].studlab) |->
                           [study |-> file[1].studlab[i],
                            treat1 |-> file[1].treat1[i], treat2 |-> file[1].treat2[i],
                            TE |-> file[1].TE[i], seTE |-> file[1].seTE[i]]]
        all == earlier \o data
    IN IF netmeta_error(all, reference) # ""
       THEN Ran(<<>>, netmeta_error(all, reference), FALSE, file, TRUE)
       ELSE LET result == netmeta(all, sm, reference, comb_fixed, comb_random) IN
            Ran(<<JSON(run_output(result, Len(all)))>>, "", FALSE, <<result>>, TRUE)

\* netmeta() leaves out the comparisons with a standard error that is not
\* positive, and (warn = TRUE, its default) prints them on stdout.
Excluded(row) == row.seTE <= 0

Kept(data) == SelectSeq(data, LAMBDA row : ~Excluded(row))

netmeta_note(data) ==
    IF \E i \in 1..Len(data) : Excluded(data[i])
    THEN <<Text("Comparison not considered in network meta-analysis:"), WS>>
    ELSE <<>>

\* The script of NetmetaBridge.run_netmeta: fit, saveRDS, print the output.
\* reference is "" when the caller gave none (ref_arg, line 132).
run_netmeta_script(file, data, sm, reference, comb_fixed, comb_random) ==
    IF Spliced(reference).statements # <<>>        \* statements in an argument list
    THEN Ran(<<>>, SyntaxError, FALSE, file, FALSE)
    ELSE IF netmeta_error(Kept(data), reference) # ""
    THEN Ran(netmeta_note(data), netmeta_error(Kept(data), reference), FALSE, file, TRUE)
    ELSE LET result == netmeta(Kept(data), sm, reference, comb_fixed, comb_random) IN
         Ran(netmeta_note(data) \o <<JSON(run_output(result, Len(data)))>>,
             "", FALSE, <<result>>, TRUE)

(***************************************************************************)
(* The scripts of the read operations.                                     *)
(***************************************************************************)
\* lapply(seq_along(result$trts), ...) and aggregate(study ~ from + to):
\* one group per (from, to) of the fitted comparisons, `from` varying fastest.
GraphDoc(result) ==
    LET n == Len(result.treat1)
        has(f, t) == \E r \in 1..n : result.treat1[r] = f /\ result.treat2[r] = t
        grid == [q \in 1..(Len(TreatmentOrder) * Len(TreatmentOrder)) |->
                    <<TreatmentOrder[((q - 1) % Len(TreatmentOrder)) + 1],
                      TreatmentOrder[((q - 1) \div Len(TreatmentOrder)) + 1]>>]
        groups == SelectSeq(grid, LAMBDA g : has(g[1], g[2]))
    IN [nodes |-> [i \in 1..Len(result.trts) |-> [id |-> i, label |-> result.trts[i]]],
        edges |-> [e \in 1..Len(groups) |->
                     [from |-> groups[e][1], to |-> groups[e][2],
                      n_studies |-> Cardinality({r \in 1..n :
                                       /\ result.treat1[r] = groups[e][1]
                                       /\ result.treat2[r] = groups[e][2]})]]]

get_network_graph_script(file) ==
    LET pre == load_state_script(file) IN AfterLoad(file, pre, GraphDoc(pre.result))

\* lapply(1:n, function(i) as.list(m[i,])): row i as a list named by treatment
MatrixRows(result, m) ==
    [i \in 1..Len(result.trts) |->
        [t \in Range(result.trts) |-> Cell(result, m, i, Index(result.trts, t))]]

LeagueDoc(result, effect_type) ==
    [treatments |-> result.trts,
     effects |-> MatrixRows(result, "TE." \o effect_type),
     ci_lower |-> MatrixRows(result, "lower." \o effect_type),
     ci_upper |-> MatrixRows(result, "upper." \o effect_type),
     sm |-> result.sm]

EffectType(random) == IF random THEN "random" ELSE "common"

\* A plausible slip: the script removes the state file once it has read it.
get_league_table_script_unlink(file, random) ==
    LET pre == load_state_script(file) IN
    AfterLoad(<<>>, pre, LeagueDoc(pre.result, EffectType(random)))

get_league_table_script(file, random) ==
    LET pre == load_state_script(file) IN
    AfterLoad(file, pre, LeagueDoc(pre.result, EffectType(random)))

\* A rank as R prints it: a whole number, or a half when ties are averaged.
Half(twice) == IF twice % 2 = 0 THEN [n |-> twice \div 2, d |-> 1]
               ELSE [n |-> twice, d |-> 2]

\* rank(-scores): ties.method = "average"
rank(scores) ==
    [i \in 1..Len(scores) |->
        LET g == Cardinality({j \in 1..Len(scores) : scores[j] > scores[i]})
            e == Cardinality({j \in 1..Len(scores) : scores[j] = scores[i]})
        IN Half(2 * g + e + 1)]

Less(a, b) == a.n * b.d < b.n * a.d

\* order(ranks): ascending, ties in their original order
order(ranks) ==
    LET before(i) == {j \in 1..Len(ranks) :
                         Less(ranks[j], ranks[i]) \/ (ranks[j] = ranks[i] /\ j < i)}
    IN [p \in 1..Len(ranks) |->
           CHOOSE i \in 1..Len(ranks) : Cardinality(before(i)) = p - 1]

\* p_scores: the P-scores netrank() gives the treatments, in their order
RankingDoc(result, p_scores) ==
    LET ranks == rank(p_scores)
        ord == order(ranks)
    IN [treatments |-> [p \in 1..Len(ord) |-> result.trts[ord[p]]],
        p_scores |-> [p \in 1..Len(ord) |-> p_scores[ord[p]]],
        ranks |-> [p \in 1..Len(ord) |-> ranks[ord[p]]]]

get_ranking_script(file, random, p_scores) ==
    LET pre == load_state_script(file) IN
    AfterLoad(file, pre, RankingDoc(pre.result, p_scores))

\* ref is the caller's reference, else result$reference.group (which is
\* never NULL: the run script passes "" for no reference); which() gives
\* the matching positions and trts[-ref_idx] drops them, or, when there is
\* none, every element.
ForestDoc(result, reference, effect_type) ==
    LET ref == IF reference # "" THEN reference ELSE result.reference_group
        ref_idx == {i \in 1..Len(result.trts) : result.trts[i] = ref}
        other_trts == IF ref_idx = {} THEN <<>>
                      ELSE SelectSeq(result.trts, LAMBDA t : t # ref)
    IN [reference |-> ref,
        sm |-> result.sm,
        comparisons |-> [c \in 1..Len(other_trts) |->
            [treatment |-> other_trts[c],
             effect |-> Cell(result, "TE." \o effect_type,
                             Index(result.trts, other_trts[c]), Index(result.trts, ref)),
             ci_lower |-> Cell(result, "lower." \o effect_type,
                             Index(result.trts, other_trts[c]), Index(result.trts, ref)),
             ci_upper |-> Cell(result, "upper." \o effect_type,
                             Index(result.trts, other_trts[c]), Index(result.trts, ref))]]]

get_forest_data_script(file, reference, random) ==
    LET pre == load_state_script(file)
        ref == Spliced(reference)
    IN AfterLoad(IF pre.quit \/ pre.cond # "" \/ ref.statements = <<>>
                 THEN file
                 ELSE <<>>,                        \* unlink removed the file
                 pre, ForestDoc(pre.result, ref.value, EffectType(random)))

(***************************************************************************)
(* pairwise_to_netmeta: pairwise() of the R package meta gives every pair  *)
(* of arms of every study.                                                 *)
(***************************************************************************)
Studies(data) ==
    SelectSeq([i \in 1..Len(data) |-> data[i].study],
              LAMBDA s : TRUE)

ArmsOf(data, s) == SelectSeq(data, LAMBDA a : a.study = s)

RECURSIVE Dedup(_)
Dedup(s) == IF s = <<>> THEN <<>>
            ELSE <<Head(s)>> \o SelectSeq(Dedup(Tail(s)), LAMBDA x : x # Head(s))

\* A plausible slip: every arm is contrasted with the first arm only.
Contrasts_vs_first(arms) ==
    LET pairs == PairsFrom(1, 2, Len(arms)) IN
    [p \in 1..Len(pairs) |->
        [study |-> arms[1].study,
         treat1 |-> arms[pairs[p][1]].treatment,
         treat2 |-> arms[pairs[p][2]].treatment,
         TE |-> <<"TE", arms[1].study, pairs[p][1], pairs[p][2]>>,
         seTE |-> <<"seTE", arms[1].study, pairs[p][1], pairs[p][2]>>]]

Contrasts(arms) ==
    LET pairs == IF Len(arms) < 2 THEN <<>> ELSE PairLoop(1, Len(arms)) IN
    [p \in 1..Len(pairs) |->
        [study |-> arms[1].study,
         treat1 |-> arms[pairs[p][1]].treatment,
         treat2 |-> arms[pairs[p][2]].treatment,
         TE |-> <<"TE", arms[1].study, pairs[p][1], pairs[p][2]>>,
         seTE |-> <<"seTE", arms[1].study, pairs[p][1], pairs[p][2]>>]]

RECURSIVE Flatten(_)
Flatten(ss) == IF ss = <<>> THEN <<>> ELSE Head(ss) \o Flatten(Tail(ss))

pairwise(data) ==
    LET studies == Dedup(Studies(data)) IN
    Flatten([k \in 1..Len(studies) |-> Contrasts(ArmsOf(data, studies[k]))])

\* The columns the script hands to pairwise(): events and n for "binary",
\* mean, sd and n for any other outcome type (lines 383-388).
pairwise_to_netmeta_script(file, data, outcome_type) ==
    LET form == IF outcome_type = "binary" THEN "binary" ELSE "continuous" IN
    IF \E i \in 1..Len(data) : data[i].form # form
    THEN Ran(<<>>, "pairwise: argument is missing", FALSE, file, TRUE)
    ELSE IF pairwise(data) = <<>>
    THEN Ran(<<>>, "pairwise: no study with two arms", FALSE, file, TRUE)
    ELSE Ran(<<JSON(pairwise(data))>>, "", FALSE, file, TRUE)

(***************************************************************************)
(* csv_to_json (server.py).  A CSV text is its header and its data rows,   *)
(* every row as long as the header.                                        *)
(***************************************************************************)
FloatLiterals == {"1", "10", "0.5", "-2"}      \* what float() accepts
IntLiterals == {"1", "10", "-2"}               \* what int() accepts

\* csv.DictReader: one dict per data row, keyed by the header
DictReader(csv) ==
    [i \in 1..Len(csv.rows) |->
        [c \in Range(csv.header) |-> csv.rows[i][Index(csv.header, c)]]]

Required(data_format) ==
    CASE data_format = "pairwise" -> {"study", "treat1", "treat2", "TE", "seTE"}
      [] data_format = "arm_binary" -> {"study", "treatment", "events", "n"}
      [] data_format = "arm_continuous" -> {"study", "treatment", "mean", "sd", "n"}
      [] OTHER -> {}

FloatColumns(data_format) ==
    CASE data_format = "pairwise" -> {"TE", "seTE"}
      [] data_format = "arm_continuous" -> {"mean", "sd"}
      [] OTHER -> {}

IntColumns(data_format) ==
    CASE data_format = "arm_binary" -> {"events", "n"}
      [] data_format = "arm_continuous" -> {"n"}
      [] OTHER -> {}

Returned(value) == [raised |-> FALSE, value |-> value]
Raised(exception) == [raised |-> TRUE, exception |-> exception]

\* A plausible slip: the rows are converted before the header is validated.
csv_to_json_convert_first(csv, data_format) ==
    LET records == DictReader(csv)
        columns == csv.header
        missing == Required(data_format) \ Range(columns)
        bad(row) == \/ \E c \in FloatColumns(data_format) \cap Range(columns) :
                          row[c] \notin FloatLiterals
                    \/ \E c \in IntColumns(data_format) \cap Range(columns) :
                          row[c] \notin IntLiterals
    IN IF records = <<>> THEN Returned([error |-> "No data found in CSV"])
       ELSE IF data_format \notin {"pairwise", "arm_binary", "arm_continuous"}
       THEN Returned([error |-> "Unknown data_format: " \o data_format,
                      valid_formats |-> <<"pairwise", "arm_binary", "arm_continuous">>])
       ELSE IF \E i \in 1..Len(records) : bad(records[i])
       THEN Raised("ValueError")
       ELSE IF missing # {}
       THEN Returned([error |-> "Missing required columns for " \o data_format \o " format",
                      missing |-> missing,
                      found_columns |-> columns,
                      required_columns |-> Required(data_format)])
       ELSE Returned([data |-> [i \in 1..Len(records) |->
                                  [c \in Required(data_format) |-> records[i][c]]],
                      n_records |-> Len(records),
                      columns |-> columns,
                      format |-> data_format])

csv_to_json(csv, data_format) ==
    LET records == DictReader(csv)
        columns == csv.header
        missing == Required(data_format) \ Range(columns)
        bad(row) == \/ \E c \in FloatColumns(data_format) : row[c] \notin FloatLiterals
                    \/ \E c \in IntColumns(data_format) : row[c] \notin IntLiterals
    IN IF records = <<>> THEN Returned([error |-> "No data found in CSV"])
       ELSE IF data_format \notin {"pairwise", "arm_binary", "arm_continuous"}
       THEN Returned([error |-> "Unknown data_format: " \o data_format,
                      valid_formats |-> <<"pairwise", "arm_binary", "arm_continuous">>])
       ELSE IF missing # {}
       THEN Returned([error |-> "Missing required columns for " \o data_format \o " format",
                      missing |-> missing,
                      found_columns |-> columns,
                      required_columns |-> Required(data_format)])
       ELSE IF \E i \in 1..Len(records) : bad(records[i])
       THEN Raised("ValueError")
       ELSE Returned([data |-> [i \in 1..Len(records) |->
                                  [c \in Required(data_format) |->
                                     IF c \in FloatColumns(data_format)
                                     THEN <<"float", records[i][c]>>
                                     ELSE IF c \in IntColumns(data_format)
                                     THEN <<"int", records[i][c]>>
                                     ELSE records[i][c]]],
                      n_records |-> Len(records),
                      columns |-> columns,
                      format |-> data_format])

(***************************************************************************)
(* Construction of the bridge (NetmetaBridge.__init__).                    *)
(***************************************************************************)
NotInstalledMsg == "R is not installed or not in PATH"

\* A plausible slip: the search path is tried first.
find_r_executable_path_first(e) ==
    IF e.system_r THEN "system"
    ELSE IF e.conda_r THEN "conda"
    ELSE "RuntimeError"

find_r_executable(e) ==
    IF e.conda_r THEN "conda"
    ELSE IF e.system_r THEN "system"
    ELSE "RuntimeError"

\* NetmetaBridge._run_r_code, from the CompletedProcess on
run_r_code(result) ==
    IF result.returncode # 0
    THEN [raised |-> TRUE, exception |-> "RuntimeError",
          message |-> "R error: " \o result.stderr]
    ELSE Returned(result.stdout)

\* subprocess.run([R, "--version"], check=True): a non-zero exit raises
\* CalledProcessError, which is not caught; FileNotFoundError is turned
\* into a RuntimeError.
VersionError(e) ==
    IF e.version = "FileNotFoundError" THEN NotInstalledMsg
    ELSE "CalledProcessError: non-zero exit status"

\* A plausible slip: the package check is left to the first use.
NetmetaBridge_init_no_check(e) ==
    IF find_r_executable(e) = "RuntimeError" THEN [status |-> "failed", error |-> NotInstalledMsg]
    ELSE IF e.version # "ok"
    THEN [status |-> "failed", r_executable |-> find_r_executable(e),
          error |-> VersionError(e)]
    ELSE [status |-> "ready", r_executable |-> find_r_executable(e)]

\* self._r_executable is assigned before the checks that may still fail;
\* error is the message of the exception that ends the construction.
NetmetaBridge_init(e) ==
    IF find_r_executable(e) = "RuntimeError" THEN [status |-> "failed", error |-> NotInstalledMsg]
    ELSE IF e.version # "ok"
    THEN [status |-> "failed", r_executable |-> find_r_executable(e),
          error |-> VersionError(e)]
    ELSE IF run_r_code(e.check).raised
    THEN [status |-> "failed", r_executable |-> find_r_executable(e),
          error |-> run_r_code(e.check).message]
    ELSE IF strip(run_r_code(e.check).value) # <<Text("TRUE")>>
    THEN [status |-> "failed", r_executable |-> find_r_executable(e),
          error |-> "R package 'netmeta' is not installed"]
    ELSE [status |-> "ready", r_executable |-> find_r_executable(e)]

(***************************************************************************)
(* The inputs the operations are called with.                              *)
(***************************************************************************)
Contrast(study, treat1, treat2, TE, seTE) ==
    [study |-> study, treat1 |-> treat1, treat2 |-> treat2, TE |-> TE, seTE |-> seTE]

DataSets ==
    { << Contrast("S1", "A", "B", 1, 2), Contrast("S2", "B", "C", -2, 1) >>,
      << Contrast("S1", "A", "B", 0, 1) >>,
      << Contrast("S1", "B", "A", 1, 1), Contrast("S2", "A", "B", 1, 1) >>,
      << Contrast("S1", "A", "B", 1, 1), Contrast("S2", "B", "C", 1, 1),
         Contrast("S3", "C", "D", 1, 1) >>,
      << Contrast("S1", "A", "B", 1, 1), Contrast("S2", "C", "D", 1, 1) >>,
      << Contrast("S1", "A", "A", 1, 1) >>,
      << >> }

SummaryMeasures == {"MD"}

\* "" stands for a reference that was not given (None).
References == {"", "A", "Z", Crafted}

Arm(study, treatment, form) == [study |-> study, treatment |-> treatment, form |-> form]

ArmSets ==
    { << Arm("S1", "A", "binary"), Arm("S1", "B", "binary"), Arm("S1", "C", "binary") >>,
      << Arm("S1", "A", "binary"), Arm("S2", "A", "binary"),
         Arm("S1", "B", "binary"), Arm("S2", "C", "binary") >>,
      << Arm("S1", "A", "continuous"), Arm("S1", "B", "continuous") >>,
      << Arm("S1", "A", "binary") >> }

OutcomeTypes == {"binary", "continuous"}

PairwiseHeader == <<"study", "treat1", "treat2", "TE", "seTE">>

CsvInputs ==
    { [header |-> PairwiseHeader, rows |-> << <<"S1", "A", "B", "0.5", "1">> >>],
      [header |-> PairwiseHeader, rows |-> << <<"S1", "A", "B", "abc", "1">> >>],
      [header |-> <<"study", "treat1", "treat2", "TE">>,
       rows |-> << <<"S1", "A", "B", "0.5">> >>],
      [header |-> <<"study", "treat1", "treat2", "TE">>,
       rows |-> << <<"S1", "A", "B", "abc">> >>],
      [header |-> PairwiseHeader, rows |-> << >>],
      [header |-> << >>, rows |-> << >>],
      [header |-> <<"study", "treatment", "events", "n">>,
       rows |-> << <<"S1", "A", "1", "10">>, <<"S1", "B", "-2", "10">> >>],
      [header |-> <<"study", "treatment", "events", "n">>,
       rows |-> << <<"S1", "A", "0.5", "10">> >>],
      [header |-> <<"study", "treatment", "mean", "sd", "n">>,
       rows |-> << <<"S1", "A", "0.5", "1", "10">> >>] }

DataFormats == {"pairwise", "arm_binary", "arm_continuous", "tsv"}

\* What R prints for cat(requireNamespace("netmeta", quietly=TRUE)), or
\* that it failed to run it.
PackageChecks ==
    { [returncode |-> 0, stdout |-> <<Text("TRUE")>>, stderr |-> ""],
      [returncode |-> 0, stdout |-> <<Text("FALSE")>>, stderr |-> ""],
      [returncode |-> 0, stdout |-> << >>, stderr |-> ""],
      [returncode |-> 1, stdout |-> << >>, stderr |-> "Error"] }

Envs == [conda_r : BOOLEAN, system_r : BOOLEAN,
         version : {"ok", "CalledProcessError", "FileNotFoundError"},
         check : PackageChecks]

NoProc == [returncode |-> 0, stdout |-> << >>, stderr |-> ""]

\* The calls of this specification come one at a time and follow no script.
NoRoundTrip == [pc |-> "off"]
NoCallers == [run |-> <<>>]

(***************************************************************************)
(* The operations.                                                         *)
(***************************************************************************)
Init ==
    /\ env \in Envs
    /\ bridge = [status |-> "none"]
    /\ stateFile = <<>>
    /\ lastOp = "none"
    /\ lastArgs = <<>>
    /\ proc = NoProc
    /\ lastResult = Returned(<<>>)
    /\ bodyRan = FALSE
    /\ fileBefore = stateFile
    /\ fileAtLastRun = stateFile
    /\ rt = NoRoundTrip
    /\ conc = NoCallers

\* r_bridge = NetmetaBridge()   (server.py line 42)
Construct ==
    /\ bridge.status = "none"
    /\ bridge' = NetmetaBridge_init(env)
    /\ UNCHANGED <<env, stateFile, lastOp, lastArgs, proc, lastResult, bodyRan,
                   fileBefore, fileAtLastRun, rt, conc>>

\* A bridge method: run the script, hand the process result to _run_r_script.
Call(op, args, ran) ==
    /\ bridge.status = "ready"
    /\ lastOp' = op
    /\ lastArgs' = args
    /\ proc' = full_script(ran)
    /\ lastResult' = Returned(run_r_script(full_script(ran)))
    /\ bodyRan' = ran.body
    /\ stateFile' = ran.file
    /\ fileBefore' = stateFile
    /\ UNCHANGED <<env, bridge>>

runnetmeta ==
    \E data \in DataSets, sm \in SummaryMeasures, reference \in References,
       comb_fixed \in BOOLEAN, comb_random \in BOOLEAN :
        LET ran == run_netmeta_script(stateFile, data, sm, reference,
                                      comb_fixed, comb_random)
        IN /\ Call("runnetmeta",
                   [data |-> data, sm |-> sm, reference |-> reference,
                    comb_fixed |-> comb_fixed, comb_random |-> comb_random], ran)
           /\ fileAtLastRun' = ran.file
           /\ UNCHANGED <<rt, conc>>

get_network_graph ==
    /\ Call("get_network_graph", <<>>, get_network_graph_script(stateFile))
    /\ UNCHANGED <<fileAtLastRun, rt, conc>>

get_league_table ==
    \E random \in BOOLEAN :
        /\ Call("get_league_table", [random |-> random],
                get_league_table_script(stateFile, random))
        /\ UNCHANGED <<fileAtLastRun, rt, conc>>

\* The P-scores are netrank()'s: any vector over the treatments.
get_ranking ==
    \E random \in BOOLEAN :
      \E p_scores \in IF stateFile = <<>> THEN {<<>>}
                      ELSE [1..Len(stateFile[1].trts) -> 0..MaxScore] :
        /\ Call("get_ranking", [random |-> random],
                get_ranking_script(stateFile, random, p_scores))
        /\ UNCHANGED <<fileAtLastRun, rt, conc>>

get_forest_data ==
    \E reference \in References, random \in BOOLEAN :
        /\ Call("get_forest_data", [reference |-> reference, random |-> random],
                get_forest_data_script(stateFile, reference, random))
        /\ UNCHANGED <<fileAtLastRun, rt, conc>>

pairwise_to_netmeta ==
    \E data \in ArmSets, outcome_type \in OutcomeTypes :
        /\ Call("pairwise_to_netmeta", [data |-> data, outcome_type |-> outcome_type],
                pairwise_to_netmeta_script(stateFile, data, outcome_type))
        /\ UNCHANGED <<fileAtLastRun, rt, conc>>

csv_to_json_tool ==
    \E csv \in CsvInputs, data_format \in DataFormats :
        /\ bridge.status = "ready"
        /\ lastOp' = "csv_to_json"
        /\ lastArgs' = [csv_content |-> csv, data_format |-> data_format]
        /\ lastResult' = csv_to_json(csv, data_format)
        /\ bodyRan' = FALSE
        /\ fileBefore' = stateFile
        /\ proc' = NoProc
        /\ UNCHANGED <<env, bridge, stateFile, fileAtLastRun, rt, conc>>

Next ==
    \/ Construct
    \/ runnetmeta
    \/ get_network_graph
    \/ get_league_table
    \/ get_ranking
    \/ get_forest_data
    \/ pairwise_to_netmeta
    \/ csv_to_json_tool

Spec == Init /\ [][Next]_vars

(***************************************************************************)
(* The facade on its own: _run_r_script applied to any process result.     *)
(***************************************************************************)
Lexemes == {WS, Text("x"), JSON([error |-> NoResultMsg]), JSON([nodes |-> <<>>])}

RECURSIVE SeqsUpTo(_, _)
SeqsUpTo(S, n) ==
    IF n = 0 THEN {<<>>}
    ELSE SeqsUpTo(S, n - 1) \cup
         {Append(s, x) : s \in {q \in SeqsUpTo(S, n - 1) : Len(q) = n - 1}, x \in S}

ProcResults == [returncode : {0, 1, -9},
                stdout : SeqsUpTo(Lexemes, MaxStdoutLen),
                stderr : {"", "Error in library(jsonlite)"}]

GoodEnv == [conda_r |-> TRUE, system_r |-> TRUE, version |-> "ok",
            check |-> [returncode |-> 0, stdout |-> <<Text("TRUE")>>, stderr |-> ""]]

InitFacade ==
    /\ env = GoodEnv
    /\ bridge = NetmetaBridge_init(GoodEnv)
    /\ stateFile = <<>>
    /\ lastOp = "none"
    /\ lastArgs = <<>>
    /\ proc \in ProcResults
    /\ lastResult = Returned(<<>>)
    /\ bodyRan = FALSE
    /\ fileBefore = <<>>
    /\ fileAtLastRun = <<>>
    /\ rt = NoRoundTrip
    /\ conc = NoCallers

Facade ==
    /\ lastOp = "none"
    /\ lastOp' = "run_r_script"
    /\ lastResult' = Returned(run_r_script(proc))
    /\ UNCHANGED <<env, bridge, stateFile, lastArgs, proc, bodyRan, fileBefore,
                   fileAtLastRun, rt, conc>>

NextFacade == Facade

SpecFacade == InitFacade /\ [][NextFacade]_vars

(***************************************************************************)
(* Properties.                                                             *)
(***************************************************************************)
ReadOps == {"get_network_graph", "get_league_table", "get_ranking", "get_forest_data"}

Succeeded == ~lastResult.raised /\ "error" \notin DOMAIN lastResult.value

\* C1: a read operation issued while the state file does not exist returns
\* the error "No netmeta result available. Run runnetmeta first.", its
\* operation body is not executed and nothing is raised.
C1_NoSessionError ==
    (lastOp \in ReadOps /\ fileBefore = <<>>) =>
        /\ lastResult = Returned([error |-> NoResultMsg])
        /\ ~bodyRan

C1_Witness ==
    /\ lastOp = "get_forest_data"
    /\ fileBefore = <<>>
    /\ lastResult.value.error = NoResultMsg

\* The treatments a response names.
Reported(op, v) ==
    IF op = "get_forest_data"
    THEN {v.reference} \cup {v.comparisons[i].treatment : i \in 1..Len(v.comparisons)}
    ELSE Range(v.treatments)

\* C2: the treatments a successful get_league_table, get_ranking or
\* get_forest_data response reports are exactly the treatments of the
\* session as the most recent runnetmeta left it.
C2_TreatmentsOfLastRun ==
    (lastOp \in {"get_league_table", "get_ranking", "get_forest_data"} /\ Succeeded) =>
        /\ fileAtLastRun # <<>>
        /\ Reported(lastOp, lastResult.value) = Range(fileAtLastRun[1].trts)

\* C3: only runnetmeta writes the state file: every other operation leaves
\* it as it was when the operation was issued, whatever it returns.
C3_OnlyRunWrites ==
    (lastOp \in ReadOps \cup {"pairwise_to_netmeta", "csv_to_json"}) =>
        stateFile = fileBefore

C3_Witness ==
    /\ lastOp = "get_league_table"
    /\ Succeeded
    /\ fileBefore # <<>>
    /\ stateFile = fileBefore

FitOfLastCall ==
    netmeta(lastArgs.data, lastArgs.sm, lastArgs.reference,
            lastArgs.comb_fixed, lastArgs.comb_random)

\* C4 as stated: after any runnetmeta call returns, the state file holds the
\* fitted object of that call.
C4_EveryRunSaves ==
    lastOp = "runnetmeta" => stateFile = <<FitOfLastCall>>

\* C4 amended: after a runnetmeta call that returns a result without an
\* error, the state file holds the fitted object of that call.
C4_SuccessfulRunSaves ==
    (lastOp = "runnetmeta" /\ Succeeded) => stateFile = <<FitOfLastCall>>

C4_Witness ==
    /\ lastOp = "runnetmeta"
    /\ Succeeded
    /\ fileBefore # <<>>
    /\ fileBefore # stateFile
    /\ stateFile = <<FitOfLastCall>>

\* C5 as stated: a non-zero exit code gives {"error": "Engine error: " + stderr}.
C5_EngineErrorLiteral ==
    (lastOp = "run_r_script" /\ proc.returncode # 0) =>
        lastResult = Returned([error |-> "Engine error: " \o proc.stderr])

\* C5 amended: a non-zero exit code gives {"error": "R error: " + stderr},
\* whatever stdout holds.
C5_NonZeroExitFirst ==
    (lastOp = "run_r_script" /\ proc.returncode # 0) =>
        lastResult = Returned([error |-> "R error: " \o proc.stderr])

C5_Witness ==
    /\ lastOp = "run_r_script"
    /\ proc.returncode = -9
    /\ proc.stdout = <<JSON([nodes |-> <<>>])>>
    /\ lastResult.value.error = "R error: "

AllSpace(s) == \A i \in 1..Len(s) : s[i] = WS

\* The result is made from what stdout holds: a document printed in it, or
\* a parse error carrying it.
FromOutput(v, s) ==
    \/ \E i \in 1..Len(s) : s[i].t = "json" /\ v = s[i].v
    \/ "raw_output" \in DOMAIN v /\ v.raw_output = s

\* C6 as stated: exit code zero and an empty stdout give
\* {"error": "No output from engine"}, and a non-empty stdout is never
\* classified as empty output.
C6_EmptyOnlyWhenEmpty ==
    (lastOp = "run_r_script" /\ proc.returncode = 0) =>
        /\ proc.stdout = <<>> => lastResult = Returned([error |-> "No output from engine"])
        /\ proc.stdout # <<>> => FromOutput(lastResult.value, proc.stdout)

\* C6 amended: exit code zero and a stdout that is empty or all whitespace
\* give {"error": "No output from R"}; a stdout with anything else in it is
\* never classified as empty output.
C6_EmptyAfterStrip ==
    (lastOp = "run_r_script" /\ proc.returncode = 0) =>
        /\ AllSpace(proc.stdout) => lastResult = Returned([error |-> "No output from R"])
        /\ ~AllSpace(proc.stdout) => FromOutput(lastResult.value, proc.stdout)

C6_Witness ==
    /\ lastOp = "run_r_script"
    /\ proc.returncode = 0
    /\ proc.stdout = <<WS, WS>>
    /\ lastResult.value = [error |-> "No output from R"]

\* stdout is one JSON document, with whitespace around it at most.
OneDocument(s) ==
    \E i \in 1..Len(s) : s[i].t = "json" /\ \A j \in 1..Len(s) : j # i => s[j] = WS

TheDocument(s) == s[CHOOSE i \in 1..Len(s) : s[i].t = "json"].v

ParsedOrRaw ==
    IF OneDocument(proc.stdout)
    THEN lastResult = Returned(TheDocument(proc.stdout))
    ELSE /\ ~lastResult.raised
         /\ DOMAIN lastResult.value = {"error", "raw_output"}
         /\ lastResult.value.raw_output = proc.stdout

\* C7 as stated: with exit code zero and a non-empty stdout, a stdout that
\* is not one JSON document gives an error carrying raw_output = stdout,
\* and any other gives the parsed document.
C7_NonEmptyParsedOrRaw ==
    (lastOp = "run_r_script" /\ proc.returncode = 0 /\ proc.stdout # <<>>) => ParsedOrRaw

\* C7 amended: the same, for a stdout that holds more than whitespace.
C7_NonBlankParsedOrRaw ==
    (lastOp = "run_r_script" /\ proc.returncode = 0 /\ ~AllSpace(proc.stdout)) => ParsedOrRaw

C7_Witness ==
    /\ lastOp = "run_r_script"
    /\ proc.returncode = 0
    /\ proc.stdout = <<WS, JSON([error |-> NoResultMsg]), WS>>
    /\ lastResult = Returned([error |-> NoResultMsg])

\* C8: no tool operation raises: every failure comes back as a result.
C8_NeverRaises ==
    lastOp # "none" => ~lastResult.raised

EngineFound == env.conda_r \/ env.system_r

PackagePresent == env.check.returncode = 0 /\ env.check.stdout = <<Text("TRUE")>>

\* C9: construction fails when no R executable is found, when the version
\* query fails or when the package check does not print TRUE, and no
\* operation is ever run on a bridge whose engine or package is missing.
C9_ConstructionFailsFast ==
    /\ (bridge.status # "none" /\ ~(EngineFound /\ env.version = "ok" /\ PackagePresent))
          => bridge.status = "failed"
    /\ lastOp # "none" =>
          bridge.status = "ready" /\ EngineFound /\ env.version = "ok" /\ PackagePresent

C9_Witness ==
    /\ bridge.status = "failed"
    /\ EngineFound
    /\ env.version = "ok"
    /\ env.check.stdout = <<Text("FALSE")>>

\* C10: the ranks get_ranking returns are a permutation of 1..n, and rank 1
\* goes to a treatment of maximal P-score, whatever the P-scores are.
C10_RanksArePermutation ==
    (lastOp = "get_ranking" /\ Succeeded) =>
        LET v == lastResult.value
            n == Len(fileBefore[1].trts)
        IN /\ Len(v.ranks) = n
           /\ Range(v.ranks) = {[n |-> r, d |-> 1] : r \in 1..n}
           /\ \E i \in 1..n : /\ v.ranks[i] = [n |-> 1, d |-> 1]
                              /\ \A j \in 1..n : v.p_scores[j] <= v.p_scores[i]

\* C11: get_forest_data resolves its reference to the caller's reference
\* when one is given, else to the reference the session was fitted with,
\* else to the first treatment of the session; with no reference from the
\* caller and none from the preceding runnetmeta it is the first treatment.
C11_ReferencePriority ==
    (lastOp = "get_forest_data" /\ Succeeded) =>
        lastResult.value.reference =
            IF lastArgs.reference # "" THEN lastArgs.reference
            ELSE IF fileBefore[1].reference_group # ""
                 THEN fileBefore[1].reference_group
                 ELSE fileBefore[1].trts[1]

\* The unordered pair of a fitted comparison.
PairOfRow(fit, r) == {fit.treat1[r], fit.treat2[r]}

\* C12: get_network_graph gives one node per treatment of the session, its
\* id being its 1-based position, and exactly one edge per distinct
\* unordered pair of treatments compared in the data, n_studies being the
\* number of comparison rows of that pair; a pair given in both orientations
\* is one edge.
C12_OneEdgePerPair ==
    (lastOp = "get_network_graph" /\ Succeeded) =>
        LET fit == fileBefore[1]
            rows == 1..Len(fit.treat1)
            nodes == lastResult.value.nodes
            edges == lastResult.value.edges
        IN /\ Len(nodes) = Len(fit.trts)
           /\ \A i \in 1..Len(nodes) : nodes[i] = [id |-> i, label |-> fit.trts[i]]
           /\ Len(edges) = Cardinality({PairOfRow(fit, r) : r \in rows})
           /\ \A r \in rows :
                \E e \in 1..Len(edges) : {edges[e].from, edges[e].to} = PairOfRow(fit, r)
           /\ \A e \in 1..Len(edges) :
                edges[e].n_studies =
                    Cardinality({r \in rows : PairOfRow(fit, r) = {edges[e].from, edges[e].to}})

\* The pair A, B was given as (B, A) by one study and as (A, B) by another.
C12_Witness ==
    /\ lastOp = "get_network_graph"
    /\ Succeeded
    /\ fileBefore[1].studlab = <<"S1", "S2">>
    /\ lastResult.value.edges = <<[from |-> "A", to |-> "B", n_studies |-> 2]>>

\* The columns the chosen format requires and the header of the call lacks.
MissingColumns ==
    Required(lastArgs.data_format) \ Range(lastArgs.csv_content.header)

NamesMissingColumns ==
    /\ ~lastResult.raised
    /\ DOMAIN lastResult.value = {"error", "missing", "found_columns", "required_columns"}
    /\ lastResult.value.missing = MissingColumns

\* C13 as stated: csv_to_json on any CSV that has a header row, with or
\* without data rows, whose header lacks columns the format requires,
\* returns the error that names exactly the missing columns.
C13_MissingColumnsAnyCsv ==
    (/\ lastOp = "csv_to_json"
     /\ lastArgs.csv_content.header # <<>>
     /\ MissingColumns # {}) => NamesMissingColumns

\* C13: csv_to_json on a CSV with a header row and at least one data row,
\* whose header lacks columns the format requires, returns the error that
\* names exactly the missing columns, and converts no data row: a value
\* that is not a number does not make it raise.
C13_MissingColumnsWithRows ==
    (/\ lastOp = "csv_to_json"
     /\ lastArgs.csv_content.rows # <<>>
     /\ MissingColumns # {}) => NamesMissingColumns

\* The header lacks seTE and the one data row has a TE that is no number.
C13_Witness ==
    /\ lastOp = "csv_to_json"
    /\ lastArgs.data_format = "pairwise"
    /\ lastArgs.csv_content.rows = << <<"S1", "A", "B", "abc">> >>
    /\ ~lastResult.raised
    /\ lastResult.value.missing = {"seTE"}

\* The number of arms the call gave for study s.
ArmCount(s) ==
    Cardinality({i \in 1..Len(lastArgs.data) : lastArgs.data[i].study = s})

\* pairwise() has what it needs: the columns of the outcome type, and a
\* study with two arms.
PairwiseAccepts ==
    /\ \A i \in 1..Len(lastArgs.data) :
         lastArgs.data[i].form =
            (IF lastArgs.outcome_type = "binary" THEN "binary" ELSE "continuous")
    /\ \E i \in 1..Len(lastArgs.data) : ArmCount(lastArgs.data[i].study) >= 2

\* C15: a successful pairwise_to_netmeta returns one flat list of contrast
\* records holding, for each study with k arms, exactly k(k-1)/2 records
\* (3 for a 3-arm study), the records of a study standing together.
C15_AllPairsPerStudy ==
    (lastOp = "pairwise_to_netmeta" /\ PairwiseAccepts) =>
        LET out == lastResult.value
            of(s) == {p \in 1..Len(out) : out[p].study = s}
        IN /\ \A p \in 1..Len(out) :
                DOMAIN out[p] = {"study", "treat1", "treat2", "TE", "seTE"}
           /\ \A i \in 1..Len(lastArgs.data) :
                LET s == lastArgs.data[i].study IN
                /\ 2 * Cardinality(of(s)) = ArmCount(s) * (ArmCount(s) - 1)
                /\ \A p \in of(s), q \in of(s) : \A m \in p..q : m \in of(s)
           /\ \A p \in 1..Len(out) :
                \E i \in 1..Len(lastArgs.data) : lastArgs.data[i].study = out[p].study

\* One study with three arms gave three contrasts.
C15_Witness ==
    /\ lastOp = "pairwise_to_netmeta"
    /\ PairwiseAccepts
    /\ Len(lastArgs.data) = 3
    /\ ArmCount("S1") = 3
    /\ Len(lastResult.value) = 3

\* The estimate lists of a runnetmeta response.
EstimateLists ==
    {lastResult.value[f] : f \in DOMAIN lastResult.value \cap {"fixed_effects", "random_effects"}}

\* C17: for a fit with n >= 2 treatments every estimate list runnetmeta
\* returns has exactly n(n-1)/2 entries, one for every pair of positions
\* (i, j) with i < j and none with i >= j, in row-major order: entry p comes
\* before entry q exactly when its row is smaller, or its row is the same
\* and its column is smaller.
C17_UpperTriangleRowMajor ==
    (lastOp = "runnetmeta" /\ Succeeded) =>
        LET trts == lastResult.value.treatments
            n == Len(trts)
        IN \A list \in EstimateLists :
            LET i(p) == Index(trts, list[p].treat1)
                j(p) == Index(trts, list[p].treat2)
            IN /\ 2 * Len(list) = n * (n - 1)
               /\ \A p \in 1..Len(list) : i(p) < j(p)
               /\ \A p \in 1..Len(list) : list[p].effect.i = i(p) /\ list[p].effect.j = j(p)
               /\ \A p \in 1..Len(list), q \in 1..Len(list) :
                    p < q <=> (i(p) < i(q) \/ (i(p) = i(q) /\ j(p) < j(q)))

\* Four treatments: six entries, and (1, 4) comes before (2, 3).
C17_Witness ==
    /\ lastOp = "runnetmeta"
    /\ Succeeded
    /\ Len(lastResult.value.treatments) = 4
    /\ "random_effects" \in DOMAIN lastResult.value
    /\ Len(lastResult.value.random_effects) = 6
    /\ lastResult.value.random_effects[3].treat2 = "D"
    /\ lastResult.value.random_effects[4].treat1 = "B"

\* The blocks of a runnetmeta response follow the models asked for.
BlocksAsRequested ==
    /\ "heterogeneity" \in DOMAIN lastResult.value <=> lastArgs.comb_random
    /\ "fixed_effects" \in DOMAIN lastResult.value <=> lastArgs.comb_fixed
    /\ "random_effects" \in DOMAIN lastResult.value <=> lastArgs.comb_random

\* C18 as stated: a successful runnetmeta result has a heterogeneity block
\* with the fields tau_squared, tau and I_squared exactly when comb_random
\* is true, and an estimate list for a model exactly when that model was
\* requested.
C18_BlocksSpecNames ==
    (lastOp = "runnetmeta" /\ Succeeded) =>
        /\ BlocksAsRequested
        /\ lastArgs.comb_random =>
              DOMAIN lastResult.value.heterogeneity = {"tau_squared", "tau", "I_squared"}

\* C18: a successful runnetmeta result has a heterogeneity block, with the
\* fields tau2, tau and I2, exactly when comb_random is true, the list
\* fixed_effects exactly when comb_fixed is true and the list random_effects
\* exactly when comb_random is true.
C18_BlocksAsRequested ==
    (lastOp = "runnetmeta" /\ Succeeded) =>
        /\ BlocksAsRequested
        /\ lastArgs.comb_random =>
              DOMAIN lastResult.value.heterogeneity = {"tau2", "tau", "I2"}

\* Random effects only: heterogeneity and random_effects, no fixed_effects.
C18_Witness ==
    /\ lastOp = "runnetmeta"
    /\ Succeeded
    /\ lastArgs.comb_random
    /\ ~lastArgs.comb_fixed
    /\ "tau2" \in DOMAIN lastResult.value.heterogeneity
    /\ "fixed_effects" \notin DOMAIN lastResult.value

\* C19: a successful get_forest_data response on a session with n
\* treatments has a reference that is one of the session's treatments and
\* exactly n - 1 comparisons, one for every other treatment and none for
\* the reference, whatever reference the caller gave, a treatment of the
\* session or not.
C19_ReferenceInSession ==
    (lastOp = "get_forest_data" /\ lastArgs.reference # "" /\ Succeeded) =>
        LET trts == fileBefore[1].trts
            v == lastResult.value
        IN /\ v.reference \in Range(trts)
           /\ Len(v.comparisons) = Len(trts) - 1
           /\ {v.comparisons[c].treatment : c \in 1..Len(v.comparisons)}
                 = Range(trts) \ {v.reference}

\* C20: once a runnetmeta call has saved the state file, no later read
\* operation returns the error "No netmeta result available. Run
\* runnetmeta first.", and no operation removes the file.
C20_SessionStays ==
    /\ fileAtLastRun # <<>> => stateFile # <<>>
    /\ (lastOp \in ReadOps /\ fileAtLastRun # <<>>) =>
          lastResult.value # [error |-> NoResultMsg]

\* A read that found the session as the last runnetmeta left it.
C20_Witness ==
    /\ lastOp \in ReadOps
    /\ fileAtLastRun # <<>>
    /\ fileBefore = fileAtLastRun
    /\ Succeeded

(***************************************************************************)
(* The round trip: one caller issues runnetmeta and get_league_table with  *)
(* the same arguments twice in a row, on whatever session earlier          *)
(* runnetmeta calls have left.                                             *)
(***************************************************************************)
RoundTripArgs == [data : DataSets, sm : SummaryMeasures, reference : References,
                  comb_fixed : {TRUE}, comb_random : {TRUE}]

InitRoundTrip ==
    /\ env = GoodEnv
    /\ bridge = NetmetaBridge_init(GoodEnv)
    /\ stateFile = <<>>
    /\ lastOp = "none"
    /\ lastArgs = <<>>
    /\ proc = NoProc
    /\ lastResult = Returned(<<>>)
    /\ bodyRan = FALSE
    /\ fileBefore = <<>>
    /\ fileAtLastRun = <<>>
    /\ rt \in [pc : {"before"}, args : RoundTripArgs, random : BOOLEAN, first : {<<>>}]
    /\ conc = NoCallers

\* Any runnetmeta before the two sequences begin: the session they find is
\* what the last successful one saved.
RT_Earlier ==
    /\ rt.pc = "before"
    /\ lastOp = "none"
    /\ runnetmeta

RT_Run(from, to) ==
    /\ rt.pc = from
    /\ LET ran == run_netmeta_script(stateFile, rt.args.data, rt.args.sm,
                                     rt.args.reference, rt.args.comb_fixed,
                                     rt.args.comb_random)
       IN /\ Call("runnetmeta", rt.args, ran)
          /\ fileAtLastRun' = ran.file
    /\ rt' = [rt EXCEPT !.pc = to]
    /\ UNCHANGED conc

RT_League(from, to) ==
    /\ rt.pc = from
    /\ Call("get_league_table", [random |-> rt.random],
            get_league_table_script(stateFile, rt.random))
    /\ rt' = [rt EXCEPT !.pc = to,
                        !.first = IF from = "ran1" THEN lastResult' ELSE @]
    /\ UNCHANGED <<fileAtLastRun, conc>>

RT_FirstRun == RT_Run("before", "ran1")
RT_FirstLeague == RT_League("ran1", "read1")
RT_SecondRun == RT_Run("read1", "ran2")
RT_SecondLeague == RT_League("ran2", "done")

NextRoundTrip ==
    \/ RT_Earlier
    \/ RT_FirstRun
    \/ RT_FirstLeague
    \/ RT_SecondRun
    \/ RT_SecondLeague

SpecRoundTrip == InitRoundTrip /\ [][NextRoundTrip]_vars

\* C16: for fixed data and configuration, two consecutive sequences of
\* runnetmeta and get_league_table, with no other runnetmeta between them,
\* return the same league table: the same treatments and the same matrices.
C16_SameLeagueTable ==
    rt.pc = "done" => lastResult = rt.first

\* Both tables are those of the fit of the three studies on four treatments.
C16_Witness ==
    /\ rt.pc = "done"
    /\ lastResult = rt.first
    /\ Succeeded
    /\ Len(lastResult.value.treatments) = 4
    /\ lastResult.value.effects[1]["D"].of[3] = <<1, 1, 1>>

(***************************************************************************)
(* Concurrent callers: two runnetmeta calls, each in its own R process,    *)
(* on the one state file of the host.  A process fits, opens the file,     *)
(* writes its pieces and prints its output.  A read is an R process of its  *)
(* own: it tests file.exists, then readRDS takes the file piece by piece,  *)
(* and the script prints its document from what readRDS returned.  The     *)
(* steps of all processes interleave freely.                               *)
(***************************************************************************)
Callers == {1, 2}

ConcDataSets ==
    { << Contrast("S1", "A", "B", 1, 2), Contrast("S2", "B", "C", -2, 1) >>,
      << Contrast("S1", "A", "B", 0, 1) >>,
      << Contrast("S1", "A", "A", 1, 1) >> }

ConcArgs == [data : ConcDataSets, sm : SummaryMeasures, reference : {""},
             comb_fixed : {TRUE}, comb_random : {TRUE}]

\* No read is in progress.
Idle == [pc |-> "idle"]

InitConcurrent ==
    /\ env = GoodEnv
    /\ bridge = NetmetaBridge_init(GoodEnv)
    /\ stateFile = <<>>
    /\ lastOp = "none"
    /\ lastArgs = <<>>
    /\ proc = NoProc
    /\ lastResult = Returned(<<>>)
    /\ bodyRan = FALSE
    /\ fileBefore = <<>>
    /\ fileAtLastRun = <<>>
    /\ rt = NoRoundTrip
    /\ \E a \in [Callers -> ConcArgs] :
         conc = [run |-> [c \in Callers |->
                            [pc |-> "called", args |-> a[c], written |-> 0,
                             response |-> Returned(<<>>)]],
                 lastWrite |-> 0, overlap |-> FALSE, read |-> Idle]

FitOfCaller(c) ==
    netmeta(conc.run[c].args.data, conc.run[c].args.sm, conc.run[c].args.reference,
            conc.run[c].args.comb_fixed, conc.run[c].args.comb_random)

ErrorOfCaller(c) == netmeta_error(conc.run[c].args.data, conc.run[c].args.reference)

AllDone == \A c \in Callers : conc.run[c].pc = "done"

ReadsUnchanged ==
    UNCHANGED <<env, bridge, lastOp, lastArgs, proc, lastResult, bodyRan,
                fileBefore, fileAtLastRun, rt>>

\* result <- netmeta(...): an error ends the script in the tryCatch handler
Conc_Fit(c) ==
    /\ conc.run[c].pc = "called"
    /\ bridge.status = "ready"
    /\ conc' = IF ErrorOfCaller(c) # ""
               THEN [conc EXCEPT
                       !.run[c].pc = "done",
                       !.run[c].response =
                           Returned(run_r_script(full_script(
                               Ran(<<>>, ErrorOfCaller(c), FALSE, stateFile, TRUE))))]
               ELSE [conc EXCEPT !.run[c].pc = "fitted"]
    /\ UNCHANGED stateFile
    /\ ReadsUnchanged

\* saveRDS opens the state file
Conc_Open(c) ==
    /\ conc.run[c].pc = "fitted"
    /\ stateFile' = saveRDS(stateFile, FitOfCaller(c), 0)
    /\ conc' = [conc EXCEPT
                  !.run[c].pc = "writing",
                  !.overlap = @ \/ \E d \in Callers \ {c} : conc.run[d].pc = "writing"]
    /\ ReadsUnchanged

\* saveRDS writes its next piece; with the last one its write is complete
Conc_Write(c) ==
    /\ conc.run[c].pc = "writing"
    /\ stateFile' = saveRDS(stateFile, FitOfCaller(c), conc.run[c].written + 1)
    /\ conc' = IF conc.run[c].written + 1 = SaveChunks
               THEN [conc EXCEPT !.run[c].pc = "saved",
                                 !.run[c].written = SaveChunks,
                                 !.lastWrite = c]
               ELSE [conc EXCEPT !.run[c].written = @ + 1]
    /\ ReadsUnchanged

\* cat(toJSON(output)); the facade parses it and runnetmeta returns
Conc_Return(c) ==
    /\ conc.run[c].pc = "saved"
    /\ conc' = [conc EXCEPT
                  !.run[c].pc = "done",
                  !.run[c].response =
                      Returned(run_r_script(full_script(
                          Ran(<<JSON(run_output(FitOfCaller(c),
                                                Len(conc.run[c].args.data)))>>,
                              "", FALSE, stateFile, TRUE))))]
    /\ UNCHANGED stateFile
    /\ ReadsUnchanged

\* The pieces are all there, each in its place.
Complete(view) ==
    /\ Len(view) = SaveChunks
    /\ \A k \in 1..SaveChunks : view[k].part = k

\* An object read from pieces of different objects: the estimates are the
\* last piece's, the rest is the first piece's.
Assembled(view) ==
    [f \in DOMAIN view[1].of |->
        IF f \in {"TE", "seTE"} THEN view[Len(view)].of[f] ELSE view[1].of[f]]

\* readRDS(path) on the pieces it took.  All pieces of one object give that
\* object; with a piece missing the serialized object is cut short and
\* readRDS stops with an error.  Pieces of different objects, each in its
\* place, are a case the repository leaves to the engine: readRDS may stop
\* with an error or return an object put together from them.
readRDS(view) ==
    IF Complete(view) /\ ~Intact(FileOf(view))
    THEN {FileOf(view), <<Assembled(view)>>}
    ELSE {FileOf(view)}

\* The scores netrank may give the treatments of a loaded object.
PScores(file) ==
    IF Intact(file) THEN [1..Len(file[1].trts) -> 0..MaxScore] ELSE {<<>>}

\* The scripts of a read operation on the file content readRDS gave it.
read_scripts(call, file) ==
    IF call.op = "get_network_graph"
    THEN {get_network_graph_script(file)}
    ELSE IF call.op = "get_league_table"
    THEN {get_league_table_script(file, call.args.random)}
    ELSE IF call.op = "get_ranking"
    THEN {get_ranking_script(file, call.args.random, p) : p \in PScores(file)}
    ELSE {get_forest_data_script(file, call.args.reference, call.args.random)}

ReadCalls ==
    {[op |-> "get_network_graph", args |-> <<>>]} \cup
    {[op |-> "get_league_table", args |-> [random |-> r]] : r \in BOOLEAN} \cup
    {[op |-> "get_ranking", args |-> [random |-> TRUE]]} \cup
    {[op |-> "get_forest_data", args |-> [reference |-> "A", random |-> TRUE]]}

\* The read has returned: the facade parsed what the script printed.
CR_Return(call, ran, started, late, assembled) ==
    /\ lastOp' = call.op
    /\ lastArgs' = call.args
    /\ proc' = full_script(ran)
    /\ lastResult' = Returned(run_r_script(full_script(ran)))
    /\ bodyRan' = ran.body
    /\ fileBefore' = stateFile
    /\ conc' = [conc EXCEPT !.read = [pc |-> "returned", started |-> started,
                                      ended |-> conc.run[1].pc, late |-> late,
                                      assembled |-> assembled]]
    /\ UNCHANGED <<env, bridge, stateFile, fileAtLastRun, rt>>

\* if (!file.exists(state_file)) ... quit; otherwise readRDS opens the file
CR_Start ==
    \E call \in ReadCalls :
        /\ bridge.status = "ready"
        /\ conc.read.pc = "idle"
        /\ IF stateFile = <<>>
           THEN \E ran \in read_scripts(call, <<>>) :
                    CR_Return(call, ran, conc.run[1].pc, AllDone, FALSE)
           ELSE /\ conc' = [conc EXCEPT !.read = [pc |-> "reading", call |-> call,
                                                  view |-> <<>>,
                                                  started |-> conc.run[1].pc,
                                                  late |-> AllDone]]
                /\ UNCHANGED <<env, bridge, stateFile, lastOp, lastArgs, proc,
                               lastResult, bodyRan, fileBefore, fileAtLastRun, rt>>

\* readRDS takes the next piece the file holds at this moment
CR_Piece ==
    /\ conc.read.pc = "reading"
    /\ Len(conc.read.view) < SaveChunks
    /\ Len(conc.read.view) < Len(Chunks(stateFile))
    /\ conc' = [conc EXCEPT !.read.view =
                    Append(@, Chunks(stateFile)[Len(conc.read.view) + 1])]
    /\ UNCHANGED <<env, bridge, stateFile, lastOp, lastArgs, proc,
                   lastResult, bodyRan, fileBefore, fileAtLastRun, rt>>

\* readRDS has all pieces or finds the end of the file; it returns or stops
\* and the script goes on
CR_Done ==
    /\ conc.read.pc = "reading"
    /\ \/ Len(conc.read.view) = SaveChunks
       \/ Len(conc.read.view) >= Len(Chunks(stateFile))
    /\ \E file \in readRDS(conc.read.view) :
         \E ran \in read_scripts(conc.read.call, file) :
            CR_Return(conc.read.call, ran, conc.read.started, conc.read.late,
                      file # FileOf(conc.read.view))

NextConcurrent ==
    \/ \E c \in Callers : Conc_Fit(c)
    \/ \E c \in Callers : Conc_Open(c)
    \/ \E c \in Callers : Conc_Write(c)
    \/ \E c \in Callers : Conc_Return(c)
    \/ CR_Start
    \/ CR_Piece
    \/ CR_Done

SpecConcurrent == InitConcurrent /\ [][NextConcurrent]_vars

\* Both calls fitted, saved and returned.
BothSaved == AllDone /\ \A c \in Callers : ErrorOfCaller(c) = ""

\* The treatments a graph or league-table response names.
NamedTreatments ==
    IF lastOp = "get_network_graph"
    THEN {lastResult.value.nodes[i].label : i \in 1..Len(lastResult.value.nodes)}
    ELSE Reported(lastOp, lastResult.value)

LastWriterHolds ==
    /\ stateFile = <<FitOfCaller(conc.lastWrite)>>
    /\ (conc.read.pc = "returned" /\ conc.read.late) =>
          /\ Succeeded
          /\ NamedTreatments = Range(FitOfCaller(conc.lastWrite).trts)

\* C14 as stated: when two runnetmeta calls ran concurrently and both
\* completed, the state file holds the fit of the call whose write completed
\* last and every later read reports that call's treatments.
C14_LastWriteWins ==
    BothSaved => LastWriterHolds

\* When neither call opened the state file while the other was writing it,
\* the later write does replace the earlier one.
SerialWritesLastWins ==
    (BothSaved /\ ~conc.overlap) => LastWriterHolds

\* Caller 1 was told of treatments A, B, C; caller 2 wrote last, and the
\* league table read afterwards is that of A, B.
SerialWritesWitness ==
    /\ BothSaved
    /\ ~conc.overlap
    /\ conc.lastWrite = 2
    /\ conc.run[1].response.value.treatments = <<"A", "B", "C">>
    /\ conc.read.pc = "returned"
    /\ conc.read.late
    /\ lastOp = "get_league_table"
    /\ Succeeded
    /\ lastResult.value.treatments = <<"A", "B">>

\* C21: the engine is the executable next to the running interpreter
\* whenever that exists, also when another one is on the search path;
\* otherwise it is the one on the search path; the search fails, with
\* "R is not installed or not in PATH", only when there is neither.
C21_EngineLocation ==
    bridge.status # "none" =>
        /\ env.conda_r => bridge.r_executable = "conda"
        /\ (~env.conda_r /\ env.system_r) => bridge.r_executable = "system"
        /\ "r_executable" \notin DOMAIN bridge <=> (~env.conda_r /\ ~env.system_r)
        /\ (~env.conda_r /\ ~env.system_r) => bridge.error = NotInstalledMsg

\* Both exist and the one next to the interpreter was taken.
C21_Witness ==
    /\ bridge.status = "ready"
    /\ env.conda_r
    /\ env.system_r
    /\ bridge.r_executable = "conda"

\* The operations that run the engine through _run_r_script.
EngineOps == ReadOps \cup {"runnetmeta", "pairwise_to_netmeta"}

\* The messages of the exceptions an engine invocation raises for a
\* non-zero exit code.
NonZeroExitErrors ==
    {"CalledProcessError: non-zero exit status"} \cup
    {"R error: " \o c.stderr : c \in PackageChecks}

\* C22: no invocation of the engine raises on a non-zero exit code: the
\* version query and the package check of the construction and the script
\* of every operation give stdout, stderr and the exit code back to the
\* caller.
C22_InvokerNeverRaises ==
    /\ bridge.status = "failed" => bridge.error \notin NonZeroExitErrors
    /\ lastOp \in EngineOps => ~lastResult.raised

(***************************************************************************)
(* Failing runs: runnetmeta calls whose engine process may fail to start,  *)
(* whose fit may stop with an error and whose data may hold comparisons    *)
(* netmeta() leaves out, with reads between them.                          *)
(***************************************************************************)
FailingDataSets ==
    { << Contrast("S1", "A", "B", 1, 2), Contrast("S2", "B", "C", -2, 1) >>,
      << Contrast("S1", "A", "B", 0, 1) >>,
      << Contrast("S1", "A", "B", 1, 1), Contrast("S2", "A", "B", 1, 0) >>,
      << Contrast("S1", "A", "B", 1, 0) >>,
      << Contrast("S1", "A", "B", 1, 1), Contrast("S2", "C", "D", 1, 1) >> }

\* R exits with status 1 when library(jsonlite) fails, before the tryCatch.
StartupFailure ==
    [returncode |-> 1, stdout |-> <<>>, stderr |-> "Error in library(jsonlite)"]

InitFailingRuns ==
    /\ env = GoodEnv
    /\ bridge = NetmetaBridge_init(GoodEnv)
    /\ stateFile = <<>>
    /\ lastOp = "none"
    /\ lastArgs = <<>>
    /\ proc = NoProc
    /\ lastResult = Returned(<<>>)
    /\ bodyRan = FALSE
    /\ fileBefore = <<>>
    /\ fileAtLastRun = <<>>
    /\ rt = NoRoundTrip
    /\ conc = NoCallers

FR_Run ==
    \E data \in FailingDataSets, sm \in SummaryMeasures, reference \in References,
       comb_fixed \in BOOLEAN, comb_random \in BOOLEAN :
        LET ran == run_netmeta_script(stateFile, data, sm, reference,
                                      comb_fixed, comb_random)
        IN /\ Call("runnetmeta",
                   [data |-> data, sm |-> sm, reference |-> reference,
                    comb_fixed |-> comb_fixed, comb_random |-> comb_random], ran)
           /\ fileAtLastRun' = ran.file
           /\ UNCHANGED <<rt, conc>>

FR_RunNotStarted ==
    \E data \in FailingDataSets, sm \in SummaryMeasures, reference \in References,
       comb_fixed \in BOOLEAN, comb_random \in BOOLEAN :
        /\ bridge.status = "ready"
        /\ lastOp' = "runnetmeta"
        /\ lastArgs' = [data |-> data, sm |-> sm, reference |-> reference,
                        comb_fixed |-> comb_fixed, comb_random |-> comb_random]
        /\ proc' = StartupFailure
        /\ lastResult' = Returned(run_r_script(StartupFailure))
        /\ bodyRan' = FALSE
        /\ fileBefore' = stateFile
        /\ fileAtLastRun' = stateFile
        /\ UNCHANGED <<env, bridge, stateFile, rt, conc>>

FR_League ==
    /\ Call("get_league_table", [random |-> TRUE],
            get_league_table_script(stateFile, TRUE))
    /\ UNCHANGED <<fileAtLastRun, rt, conc>>

NextFailingRuns ==
    \/ FR_Run
    \/ FR_RunNotStarted
    \/ FR_League

SpecFailingRuns == InitFailingRuns /\ [][NextFailingRuns]_vars

\* C23: whenever runnetmeta returns an error result (an error of the fit
\* caught by tryCatch, a non-zero exit, empty or malformed output), the
\* state file is as it was before the call: later reads find the same
\* analysis, and a file that did not exist still does not.
C23_FailedRunLeavesSession ==
    (lastOp = "runnetmeta" /\ ~Succeeded) => stateFile = fileBefore

\* A run that did not start, or whose fit stopped with an error, does leave
\* the state file as it was.
FailedFitLeavesSession ==
    (/\ lastOp = "runnetmeta"
     /\ \/ proc.returncode # 0
        \/ netmeta_error(Kept(lastArgs.data), lastArgs.reference) # "")
    => (~Succeeded /\ stateFile = fileBefore)

FailedFitWitness ==
    /\ lastOp = "runnetmeta"
    /\ ~Succeeded
    /\ fileBefore # <<>>
    /\ stateFile = fileBefore
    /\ lastArgs.reference = "Z"

(***************************************************************************)
(* A read beside a running call.  Caller 2 has returned and left the       *)
(* session the read may find; caller 1 runs runnetmeta step by step.  The  *)
(* reading R process tests file.exists, then readRDS takes the file piece  *)
(* by piece while caller 1 may empty and rewrite it, and the script prints *)
(* its document from what readRDS returned.                                *)
(***************************************************************************)
InitConcurrentRead ==
    /\ env = GoodEnv
    /\ bridge = NetmetaBridge_init(GoodEnv)
    /\ lastOp = "none"
    /\ lastArgs = <<>>
    /\ proc = NoProc
    /\ lastResult = Returned(<<>>)
    /\ bodyRan = FALSE
    /\ fileBefore = <<>>
    /\ fileAtLastRun = <<>>
    /\ rt = NoRoundTrip
    /\ \E a \in [Callers -> ConcArgs] :
         LET earlier == run_netmeta_script(<<>>, a[2].data, a[2].sm, a[2].reference,
                                           a[2].comb_fixed, a[2].comb_random)
         IN /\ stateFile = earlier.file
            /\ conc = [run |-> [c \in Callers |->
                                  IF c = 2
                                  THEN [pc |-> "done", args |-> a[c], written |-> 0,
                                        response |->
                                            Returned(run_r_script(full_script(earlier)))]
                                  ELSE [pc |-> "called", args |-> a[c], written |-> 0,
                                        response |-> Returned(<<>>)]],
                        lastWrite |-> 0, overlap |-> FALSE,
                        before |-> earlier.file, read |-> Idle]

NextConcurrentRead ==
    \/ Conc_Fit(1)
    \/ Conc_Open(1)
    \/ Conc_Write(1)
    \/ Conc_Return(1)
    \/ CR_Start
    \/ CR_Piece
    \/ CR_Done

SpecConcurrentRead == InitConcurrentRead /\ [][NextConcurrentRead]_vars

\* What the read that returned may return when it finds exactly the given
\* session.
ReadsOf(file) ==
    {Returned(run_r_script(full_script(ran))) :
        ran \in read_scripts([op |-> lastOp, args |-> lastArgs], file)}

\* The read returned a document of one session, whole: the one before
\* caller 1's call or the one that call saves.
OneSession ==
    \/ lastResult \in ReadsOf(conc.before)
    \/ ErrorOfCaller(1) = "" /\ lastResult \in ReadsOf(<<FitOfCaller(1)>>)

\* A read beside a runnetmeta call for which readRDS did not put an object
\* together from pieces of two: the read did not raise and returned an
\* error result, or what it returns on the session before the call, or
\* what it returns on the session the call saves.
WholeReadSeesOneSession ==
    (conc.read.pc = "returned" /\ ~conc.read.assembled) =>
        /\ ~lastResult.raised
        /\ ~Succeeded \/ OneSession

\* The read started while caller 1 was writing over the session of A, B;
\* it returned the league table of caller 1's A, B, C before caller 1 did.
ReadNewSessionWitness ==
    /\ conc.read.pc = "returned"
    /\ conc.read.started = "writing"
    /\ conc.read.ended = "saved"
    /\ Intact(conc.before)
    /\ lastOp = "get_league_table"
    /\ Succeeded
    /\ lastResult \in ReadsOf(<<FitOfCaller(1)>>)
    /\ lastResult \notin ReadsOf(conc.before)
    /\ lastResult.value.treatments = <<"A", "B", "C">>

\* The read started on the earlier session and caller 1 emptied the file
\* under it: an error result.
ReadTornWitness ==
    /\ conc.read.pc = "returned"
    /\ conc.read.started = "fitted"
    /\ conc.read.ended = "writing"
    /\ Intact(conc.before)
    /\ ~Succeeded
    /\ lastResult.value.error = "error reading from connection"

\* The read took the first piece of the earlier session and the last piece
\* of caller 1's, and readRDS returned an object: a successful result that
\* is the document of neither session.
AssembledReadWitness ==
    /\ conc.read.pc = "returned"
    /\ conc.read.assembled
    /\ Succeeded
    /\ ~OneSession

\* With two calls writing and a read beside them, a successful read for
\* which readRDS returned one object's pieces is the document of one
\* call's fit, whole; the file itself may never have held that fit whole.
ReadSeesOneFit ==
    (conc.read.pc = "returned" /\ ~conc.read.assembled /\ Succeeded) =>
        \E c \in Callers :
            /\ ErrorOfCaller(c) = ""
            /\ lastResult \in ReadsOf(<<FitOfCaller(c)>>)

\* The read took caller 1's first piece, caller 2 emptied the file, caller 1
\* wrote its second piece and the read took it: the graph of A, B, C from a
\* file that now holds a hole and one piece.
ReadAcrossWritersWitness ==
    /\ conc.read.pc = "returned"
    /\ Succeeded
    /\ lastOp = "get_network_graph"
    /\ conc.overlap
    /\ conc.run[2].pc = "writing"
    /\ conc.run[2].written = 0
    /\ stateFile = <<[torn |-> <<Hole, Chunk(FitOfCaller(1), 2)>>]>>
    /\ lastResult \in ReadsOf(<<FitOfCaller(1)>>)
    /\ Len(FitOfCaller(1).trts) = 3

\* A read whose reference holds no double quote leaves the state file as
\* it found it, and so do pairwise_to_netmeta and csv_to_json.
PlainReadsLeaveSession ==
    (/\ lastOp \in ReadOps \cup {"pairwise_to_netmeta", "csv_to_json"}
     /\ lastOp = "get_forest_data" => Spliced(lastArgs.reference).statements = <<>>)
    => stateFile = fileBefore

====
